---- MODULE Spec2Model ----
(***************************************************************************)
(* The schema core of SQLMaker (src/src/temp.js): the tables and           *)
(* relationships held by the DatabaseDesigner component, and the handlers  *)
(* that change them (saveTable, deleteTable, saveRelationship,             *)
(* deleteRelationship).                                                    *)
(*                                                                         *)
(* Strings that the code compares, trims, lower-cases or concatenates      *)
(* (table names, field names, the child FK field name) are sequences of    *)
(* one-character strings, so toLowerCase, trim and template literals are   *)
(* computed character by character.  Identifiers produced by               *)
(* crypto.randomUUID are fresh natural numbers, counted per kind of        *)
(* record; 0 is the unset (falsy) identifier.  JavaScript objects are     *)
(* records whose DOMAIN is the set of keys the object literal has, so a    *)
(* key that the code never sets is absent, and reads of it are falsy.      *)
(* Field ids only                                                          *)
(* address rows of the draft form (updateFieldInDraft, removeFieldInDraft) *)
(* and are unique per row, so drafts address rows by position and fields   *)
(* carry no id.                                                            *)
(***************************************************************************)
EXTENDS Integers, Sequences, FiniteSets, TLC

\* tables, relationships, dialect, message: the component's state (lines 38-46);
\* file: the project file that exportJSON last downloaded, with the state it
\* was exported from;
\* tableIds, relIds: how many table and relationship identifiers were handed out;
\* last: the most recent handler call that did anything: its name, its
\* arguments, how it ended ("ok", "rejected" with a message, or "TypeError"
\* when it threw), and the tables and relationships it was called on
VARIABLES tables, relationships, dialect, message, tableIds, relIds, last, file

vars == <<tables, relationships, dialect, message, tableIds, relIds, last, file>>

---------------------------------------------------------------------------
(* Bounds of the model *)

\* a table can be created from the form while fewer table identifiers than
\* this were handed out
MaxTableIds == 2
\* relationship identifiers handed out in one run
MaxRelIds == 2
\* items of a list handed to uniqueName on its own
MaxItems == 3

---------------------------------------------------------------------------
(* Strings *)

\* String.prototype.toLowerCase, per character
LowerChar(c) ==
  CASE c = "A" -> "a"
    [] c = "B" -> "b"
    [] c = "D" -> "d"
    [] c = "E" -> "e"
    [] c = "I" -> "i"
    [] c = "L" -> "l"
    [] c = "T" -> "t"
    [] OTHER -> c

toLowerCase(s) == [i \in 1..Len(s) |-> LowerChar(s[i])]

\* String.prototype.trim: drop the leading and the trailing white space
RECURSIVE trimStart(_)
trimStart(s) ==
  IF s # <<>> /\ Head(s) = " " THEN trimStart(Tail(s)) ELSE s

RECURSIVE trimEnd(_)
trimEnd(s) ==
  IF s # <<>> /\ s[Len(s)] = " " THEN trimEnd(SubSeq(s, 1, Len(s) - 1)) ELSE s

trim(s) == trimEnd(trimStart(s))

DigitChar == <<"0", "1", "2", "3", "4", "5", "6", "7", "8", "9">>

\* the decimal rendering of a number inside a template literal
RECURSIVE NumToStr(_)
NumToStr(n) ==
  IF n < 10 THEN <<DigitChar[n + 1]>>
  ELSE NumToStr(n \div 10) \o <<DigitChar[(n % 10) + 1]>>

Range(seq) == {seq[i] : i \in 1..Len(seq)}

\* Array.prototype.find, given for each element whether the callback accepts
\* it: the index of the first match, 0 when there is none (undefined)
find(matches) ==
  IF \E i \in 1..Len(matches) : matches[i]
  THEN CHOOSE i \in 1..Len(matches) : matches[i] /\ \A j \in 1..(i - 1) : ~matches[j]
  ELSE 0

\* a key read for its truthiness: absent keys are undefined, hence falsy
Truthy(obj, key) == key \in DOMAIN obj /\ obj[key] = TRUE

\* { ...obj, [key]: value }
With(obj, key, value) ==
  [k \in (DOMAIN obj) \cup {key} |-> IF k = key THEN value ELSE obj[k]]

---------------------------------------------------------------------------
(* uniqueName, lines 27-35 *)

RECURSIVE uniqueNameLoop(_, _, _, _)
uniqueNameLoop(base, existing, name, i) ==
  IF toLowerCase(name) \in existing
  THEN uniqueNameLoop(base, existing, base \o <<"_">> \o NumToStr(i), i + 1)
  ELSE name

\* a variant for C13: the names of the list taken as they are
uniqueNameExact(base, list) ==
  uniqueNameLoop(base, {list[k].name : k \in 1..Len(list)}, base, 1)

uniqueName(base, list) ==
  uniqueNameLoop(base, {toLowerCase(list[k].name) : k \in 1..Len(list)}, base, 1)

---------------------------------------------------------------------------
(* Field and draft construction *)

\* DEFAULT_FIELD, lines 8-17
DEFAULT_FIELD ==
  [name |-> <<"i", "d">>, type |-> "INTEGER", isPrimary |-> TRUE, isNull |-> FALSE,
   isUnique |-> FALSE, autoIncrement |-> TRUE, default |-> <<>>]

REL_TYPES == {"ONE_TO_ONE", "ONE_TO_MANY", "MANY_TO_MANY"}

\* openCreateTable, lines 73-80: the draft the table form opens with
openCreateTable(tbls) ==
  [name |-> uniqueName(<<"t", "a", "b", "l", "e">>, tbls), fields |-> <<DEFAULT_FIELD>>]

\* openEditTable, lines 82-88: a deep copy of the stored table
openEditTable(t) == t

\* the table-name input of the form, line 488
setDraftName(draft, value) == With(draft, "name", value)

\* addFieldToDraft, lines 144-161
addFieldToDraft(draft) ==
  With(draft, "fields",
       Append(draft.fields,
              [name |-> <<>>, type |-> "TEXT", isPrimary |-> FALSE, isNull |-> TRUE,
               isUnique |-> FALSE, autoIncrement |-> FALSE, default |-> <<>>]))

\* updateFieldInDraft, lines 163-168, the row given by its position
updateFieldInDraft(draft, row, key, value) ==
  With(draft, "fields",
       [i \in 1..Len(draft.fields) |->
          IF i = row THEN With(draft.fields[i], key, value) ELSE draft.fields[i]])

\* removeFieldInDraft, lines 170-175, the row given by its position
removeFieldInDraft(draft, row) ==
  With(draft, "fields",
       [i \in 1..(Len(draft.fields) - (IF row \in 1..Len(draft.fields) THEN 1 ELSE 0)) |->
          IF i < row THEN draft.fields[i] ELSE draft.fields[i + 1]])

---------------------------------------------------------------------------
(* Table operations *)

\* tables.find(x => x.id === id): the position of the table, 0 when absent
tableIndex(tbls, id) == find([i \in 1..Len(tbls) |-> tbls[i].id = id])

\* a variant for C10: table names compared without lower-casing them
nameConflictExact(tableDraft, editingTable) ==
  \E i \in 1..Len(tables) :
     /\ trim(tables[i].name) = trim(tableDraft.name)
     /\ tables[i].id # editingTable

\* saveTable's name collision test, lines 96-99
nameConflict(tableDraft, editingTable) ==
  LET nameLower == toLowerCase(trim(tableDraft.name))
  IN \E i \in 1..Len(tables) :
        /\ toLowerCase(trim(tables[i].name)) = nameLower
        /\ tables[i].id # editingTable

\* a variant for C4: field names compared without lower-casing them
duplicateFieldNamesExact(fields) ==
  LET names == [i \in 1..Len(fields) |-> fields[i].name]
  IN Cardinality(Range(names)) # Len(names)

\* saveTable's duplicate field name test, lines 115-116
duplicateFieldNames(fields) ==
  LET names == [i \in 1..Len(fields) |-> toLowerCase(fields[i].name)]
  IN Cardinality(Range(names)) # Len(names)

\* saveTable's validation, lines 91-119: the message of the first check that
\* rejects the draft, "" when the draft passes all of them
saveTableRejection(tableDraft, editingTable) ==
  CASE trim(tableDraft.name) = <<>> -> "Table name required"
    [] nameConflict(tableDraft, editingTable) -> "Table name already exists"
    [] Len(tableDraft.fields) = 0 -> "At least one field required"
    [] ~(\E i \in 1..Len(tableDraft.fields) : Truthy(tableDraft.fields[i], "isPrimary"))
         -> "Primary key required"
    [] duplicateFieldNames(tableDraft.fields) -> "Duplicate field names"
    [] OTHER -> ""

\* a variant for C14: the new table put at the end of the collection
replaceTableLast(tbls, id, newTable) ==
  Append(SelectSeq(tbls, LAMBDA t : t.id # id), newTable)

\* tables.map(t => t.id === editingTable ? { ...tableDraft, id: editingTable } : t)
replaceTable(tbls, id, newTable) ==
  [i \in 1..Len(tbls) |-> IF tbls[i].id = id THEN newTable ELSE tbls[i]]

\* saveTable, lines 90-131; editingTable = 0 is the create form (null)
saveTable(tableDraft, editingTable) ==
  LET rejection == saveTableRejection(tableDraft, editingTable)
      call == [op |-> "saveTable", tableDraft |-> tableDraft, editingTable |-> editingTable,
               tables |-> tables, relationships |-> relationships]
  IN IF rejection # ""
     THEN /\ message' = rejection
          /\ last' = With(call, "result", "rejected")
          /\ UNCHANGED <<tables, relationships, tableIds, relIds>>
     ELSE IF editingTable # 0
     THEN /\ tables' = replaceTable(tables, editingTable, With(tableDraft, "id", editingTable))
          /\ message' = "Table updated"
          /\ last' = With(call, "result", "ok")
          /\ UNCHANGED <<relationships, tableIds, relIds>>
     ELSE /\ tables' = Append(tables, With(tableDraft, "id", tableIds + 1))
          /\ tableIds' = tableIds + 1
          /\ message' = "Table created"
          /\ last' = With(call, "result", "ok")
          /\ UNCHANGED <<relationships, relIds>>

\* a variant for C8: only the relationships the table is the parent of are dropped
relationshipsWithoutParent(rels, tableId) ==
  SelectSeq(rels, LAMBDA r : r.parentTableId # tableId)

\* the relationships deleteTable keeps, lines 137-139
relationshipsWithout(rels, tableId) ==
  SelectSeq(rels, LAMBDA r : r.parentTableId # tableId /\ r.childTableId # tableId)

\* a variant for C18: the foreign keys to the table are taken off the other tables
deleteTableCascade(tableId) ==
  IF tableIndex(tables, tableId) = 0
  THEN UNCHANGED vars
  ELSE /\ tables' =
            LET kept == SelectSeq(tables, LAMBDA x : x.id # tableId)
            IN [i \in 1..Len(kept) |->
                  With(kept[i], "fields",
                       SelectSeq(kept[i].fields,
                                 LAMBDA f : ~(Truthy(f, "isForeignKey")
                                              /\ f.references = tableId)))]
       /\ relationships' = relationshipsWithout(relationships, tableId)
       /\ message' = "Deleted table and related relationships"
       /\ last' = [op |-> "deleteTable", tableId |-> tableId, result |-> "ok",
                   tables |-> tables, relationships |-> relationships]
       /\ UNCHANGED <<tableIds, relIds>>

\* deleteTable, lines 133-142
deleteTable(tableId) ==
  IF tableIndex(tables, tableId) = 0
  THEN UNCHANGED vars
  ELSE /\ tables' = SelectSeq(tables, LAMBDA x : x.id # tableId)
       /\ relationships' = relationshipsWithout(relationships, tableId)
       /\ message' = "Deleted table and related relationships"
       /\ last' = [op |-> "deleteTable", tableId |-> tableId, result |-> "ok",
                   tables |-> tables, relationships |-> relationships]
       /\ UNCHANGED <<tableIds, relIds>>

---------------------------------------------------------------------------
(* Relationship operations *)

\* a variant for C5: both foreign keys of the join table reference the parent
joinTableToParent(parent, child, id) ==
  [id |-> id,
   name |-> uniqueName(parent.name \o <<"_">> \o child.name \o <<"_", "j", "o", "i", "n">>,
                       tables),
   fields |-> <<DEFAULT_FIELD,
                [name |-> toLowerCase(parent.name) \o <<"_", "i", "d">>, type |-> "INTEGER",
                 isForeignKey |-> TRUE, references |-> parent.id],
                [name |-> toLowerCase(child.name) \o <<"_", "i", "d">>, type |-> "INTEGER",
                 isForeignKey |-> TRUE, references |-> parent.id]>>]

\* the join table of a MANY_TO_MANY relationship, lines 208-229
joinTable(parent, child, id) ==
  [id |-> id,
   name |-> uniqueName(parent.name \o <<"_">> \o child.name \o <<"_", "j", "o", "i", "n">>,
                       tables),
   fields |-> <<DEFAULT_FIELD,
                [name |-> toLowerCase(parent.name) \o <<"_", "i", "d">>, type |-> "INTEGER",
                 isForeignKey |-> TRUE, references |-> parent.id],
                [name |-> toLowerCase(child.name) \o <<"_", "i", "d">>, type |-> "INTEGER",
                 isForeignKey |-> TRUE, references |-> child.id]>>]

\* parent.fields.find(f => f.isPrimary) || parent.fields[0], line 239: the
\* position of that field, 0 when the parent has no field (undefined)
parentPKIndex(parent) ==
  LET found == find([i \in 1..Len(parent.fields) |-> Truthy(parent.fields[i], "isPrimary")])
  IN IF found # 0 THEN found ELSE IF Len(parent.fields) > 0 THEN 1 ELSE 0

\* relDraft.childField?.trim() || `${parent.name.toLowerCase()}_id`, line 240
resolveFkName(relDraft, parent) ==
  IF trim(relDraft.childField) # <<>>
  THEN trim(relDraft.childField)
  ELSE toLowerCase(parent.name) \o <<"_", "i", "d">>

\* a variant for C12: the child's field names compared without lower-casing them
childHasFieldExact(child, fkName) ==
  \E i \in 1..Len(child.fields) : child.fields[i].name = fkName

\* child.fields.some(f => f.name.toLowerCase() === fkName.toLowerCase()), line 241
childHasField(child, fkName) ==
  \E i \in 1..Len(child.fields) : toLowerCase(child.fields[i].name) = toLowerCase(fkName)

\* the foreign-key field pushed onto the child, lines 245-253
foreignKeyField(fkName, parentPK, parent, type) ==
  [name |-> fkName, type |-> (IF parentPK.type # "" THEN parentPK.type ELSE "INTEGER"),
   isForeignKey |-> TRUE,
   references |-> parent.id, isUnique |-> (type = "ONE_TO_ONE"), isNull |-> FALSE]

\* the child's fields after the relationship is saved, lines 242-258
updatedChildFields(child, fkName, parentPK, parent, type) ==
  IF ~childHasField(child, fkName)
  THEN Append(child.fields, foreignKeyField(fkName, parentPK, parent, type))
  ELSE IF type = "ONE_TO_ONE"
  THEN [i \in 1..Len(child.fields) |->
          IF toLowerCase(child.fields[i].name) = toLowerCase(fkName)
          THEN With(child.fields[i], "isUnique", TRUE)
          ELSE child.fields[i]]
  ELSE child.fields

\* a variant for C9: equal endpoints pass the test
invalidEndpointsUnsetOnly(parentTableId, childTableId) ==
  parentTableId = 0 \/ childTableId = 0

\* saveRelationship's test of the endpoints, line 195
invalidEndpoints(parentTableId, childTableId) ==
  parentTableId = 0 \/ childTableId = 0 \/ parentTableId = childTableId

\* saveRelationship, lines 193-272
saveRelationship(relDraft) ==
  LET parentTableId == relDraft.parentTableId
      childTableId == relDraft.childTableId
      type == relDraft.type
      p == tableIndex(tables, parentTableId)
      c == tableIndex(tables, childTableId)
      call == [op |-> "saveRelationship", relDraft |-> relDraft,
               tables |-> tables, relationships |-> relationships]
  IN IF invalidEndpoints(parentTableId, childTableId)
     THEN /\ message' = "Invalid parent/child tables"
          /\ last' = With(call, "result", "rejected")
          /\ UNCHANGED <<tables, relationships, tableIds, relIds>>
     ELSE IF p = 0 \/ c = 0
     THEN /\ message' = "Parent or child table missing"
          /\ last' = With(call, "result", "rejected")
          /\ UNCHANGED <<tables, relationships, tableIds, relIds>>
     ELSE IF type = "MANY_TO_MANY"
     THEN /\ tables' = Append(tables, joinTable(tables[p], tables[c], tableIds + 1))
          /\ relationships' = Append(relationships, With(relDraft, "id", relIds + 1))
          /\ tableIds' = tableIds + 1
          /\ relIds' = relIds + 1
          /\ message' = "Created join table"
          /\ last' = With(call, "result", "ok")
     ELSE IF parentPKIndex(tables[p]) = 0
     THEN \* parentPK is undefined: reading parentPK.type (line 248) or
          \* parentPK.name (line 263) throws before any state is set
          /\ last' = With(call, "result", "TypeError")
          /\ UNCHANGED <<tables, relationships, message, tableIds, relIds>>
     ELSE LET parent == tables[p]
              child == tables[c]
              parentPK == parent.fields[parentPKIndex(parent)]
              fkName == resolveFkName(relDraft, parent)
              updatedChild ==
                With(child, "fields", updatedChildFields(child, fkName, parentPK, parent, type))
              newRel == [id |-> relIds + 1,
                         parentTableId |-> parentTableId, childTableId |-> childTableId,
                         type |-> type,
                         parentField |-> parentPK.name, childField |-> fkName]
          IN /\ tables' = replaceTable(tables, child.id, updatedChild)
             /\ relationships' = Append(relationships, newRel)
             /\ relIds' = relIds + 1
             /\ message' = "Relationship saved"
             /\ UNCHANGED tableIds
             /\ last' = With(call, "result", "ok")

\* the table deleteRelationship takes for the join table, lines 280-282: the
\* position of the first table with a foreign key to either endpoint, 0 if none
findJoinTable(rel) ==
  find([k \in 1..Len(tables) |->
          \E i \in 1..Len(tables[k].fields) :
             /\ Truthy(tables[k].fields[i], "isForeignKey")
             /\ tables[k].fields[i].references \in {rel.parentTableId, rel.childTableId}])

\* child.fields.filter(f => !(f.isForeignKey && f.references === rel.parentTableId)), line 296
withoutForeignKeys(fields, parentTableId) ==
  SelectSeq(fields, LAMBDA f : ~(Truthy(f, "isForeignKey") /\ f.references = parentTableId))

\* deleteRelationship, lines 274-304
deleteRelationship(relId) ==
  LET r == find([i \in 1..Len(relationships) |-> relationships[i].id = relId])
      call == [op |-> "deleteRelationship", relId |-> relId, result |-> "ok",
               tables |-> tables, relationships |-> relationships]
  IN IF r = 0
     THEN UNCHANGED vars
     ELSE LET rel == relationships[r]
          IN IF rel.type = "MANY_TO_MANY"
             THEN /\ tables' =
                       IF findJoinTable(rel) # 0
                       THEN SelectSeq(tables, LAMBDA t : t.id # tables[findJoinTable(rel)].id)
                       ELSE tables
                  /\ relationships' = SelectSeq(relationships, LAMBDA x : x.id # relId)
                  /\ message' = "Deleted M:N relationship and join table"
                  /\ last' = call
                  /\ UNCHANGED <<tableIds, relIds>>
             ELSE LET c == tableIndex(tables, rel.childTableId)
                  IN /\ tables' =
                          IF c # 0
                          THEN replaceTable(tables, tables[c].id,
                                 With(tables[c], "fields",
                                      withoutForeignKeys(tables[c].fields, rel.parentTableId)))
                          ELSE tables
                     /\ relationships' = SelectSeq(relationships, LAMBDA x : x.id # relId)
                     /\ message' = "Deleted relationship"
                     /\ last' = call
                     /\ UNCHANGED <<tableIds, relIds>>

---------------------------------------------------------------------------
(* SQL generation, lines 338-368 *)

\* A text is a sequence of pieces: the characters of the names, and the
\* literals of the code as one piece each; the comma and the line feed are
\* always pieces of their own.

\* the dialects of the select, lines 400-404
Dialects == {"postgres", "mysql", "sqlite"}

\* the piece for the grave accent (U+0060) that quotes MySQL identifiers; a
\* string of this notation cannot hold that character
backtick == "(grave accent)"

\* escapeId, line 339
escapeId(n, forDialect) ==
  IF forDialect = "mysql"
  THEN <<backtick>> \o n \o <<backtick>>
  ELSE <<"\"">> \o n \o <<"\"">>

\* Array.prototype.join on an array of texts
RECURSIVE join(_, _)
join(texts, separator) ==
  IF Len(texts) = 0 THEN <<>>
  ELSE IF Len(texts) = 1 THEN texts[1]
  ELSE texts[1] \o separator \o join(Tail(texts), separator)

\* f.default read as a condition, line 351: a non-empty string
hasDefault(f) == "default" \in DOMAIN f /\ f.default # <<>>

\* the column definition of field f, lines 346-352
columnDef(f, forDialect) ==
  LET parts ==
        <<escapeId(f.name, forDialect) \o <<" ", f.type>>>>
        \o (IF Truthy(f, "isPrimary") THEN <<<<"PRIMARY KEY">>>> ELSE <<>>)
        \o (IF ~Truthy(f, "isNull") /\ ~Truthy(f, "isPrimary")
            THEN <<<<"NOT NULL">>>> ELSE <<>>)
        \o (IF Truthy(f, "isUnique") THEN <<<<"UNIQUE">>>> ELSE <<>>)
        \o (IF hasDefault(f) THEN << <<"DEFAULT '">> \o f.default \o <<"'">> >> ELSE <<>>)
  IN <<"  ">> \o join(parts, <<" ">>)

\* parent.fields.find(p => p.isPrimary)?.name || 'id', line 358
referencedKey(parent) ==
  LET p == find([i \in 1..Len(parent.fields) |-> Truthy(parent.fields[i], "isPrimary")])
  IN IF p # 0 /\ parent.fields[p].name # <<>> THEN parent.fields[p].name ELSE <<"i", "d">>

\* the FOREIGN KEY definition of field fk, line 359
foreignKeyDef(fk, parent, forDialect) ==
  <<"  ", ",", "FOREIGN KEY (">> \o escapeId(fk.name, forDialect) \o <<") REFERENCES ">>
  \o escapeId(parent.name, forDialect)
  \o <<"(">> \o escapeId(referencedKey(parent), forDialect) \o <<")">>

\* a variant for C19: the FOREIGN KEY definitions of all the foreign keys, those
\* whose table is not found rendered with the table of the field itself
tableDefsAllKeys(t, forDialect) ==
  LET fks == SelectSeq(t.fields, LAMBDA f : Truthy(f, "isForeignKey") /\ f.references # 0)
  IN [k \in 1..Len(t.fields) |-> columnDef(t.fields[k], forDialect)]
     \o [k \in 1..Len(fks) |->
           foreignKeyDef(fks[k],
                         IF tableIndex(tables, fks[k].references) # 0
                         THEN tables[tableIndex(tables, fks[k].references)] ELSE t,
                         forDialect)]

\* a variant for C15: the column definitions in the reverse of the field order
tableDefsReversed(t, forDialect) ==
  [k \in 1..Len(t.fields) |-> columnDef(t.fields[Len(t.fields) + 1 - k], forDialect)]

\* defs of table t, lines 343-362: the column definitions, then the FOREIGN KEY
\* definitions of the foreign keys whose table is found
tableDefs(t, forDialect) ==
  LET fks == SelectSeq(t.fields,
                       LAMBDA f : /\ Truthy(f, "isForeignKey") /\ f.references # 0
                                  /\ tableIndex(tables, f.references) # 0)
  IN [k \in 1..Len(t.fields) |-> columnDef(t.fields[k], forDialect)]
     \o [k \in 1..Len(fks) |->
           foreignKeyDef(fks[k], tables[tableIndex(tables, fks[k].references)], forDialect)]

\* the lines pushed for table t, lines 342-365
tableLines(t, forDialect) ==
  <<<<"CREATE TABLE ">> \o escapeId(t.name, forDialect) \o <<" (">>,
    join(tableDefs(t, forDialect), <<",", "\n">>),
    <<");", "\n">>>>

RECURSIVE allTableLines(_, _)
allTableLines(tbls, forDialect) ==
  IF tbls = <<>> THEN <<>>
  ELSE tableLines(Head(tbls), forDialect) \o allTableLines(Tail(tbls), forDialect)

\* generateSQL, lines 338-368
generateSQL(forDialect) ==
  join(<<<<"-- Generated by SQLMaker">>, <<"-- Dialect: ", forDialect>>, <<>>>>
       \o allTableLines(tables, forDialect),
       <<"\n">>)

---------------------------------------------------------------------------
(* Export and import of the project, lines 307-335 *)

\* A JSON document is the sequence of the members <<key, value>> of its
\* object, nested objects and arrays likewise; JSON.stringify writes the keys
\* an object has, JSON.parse builds an object with the keys it reads.

\* the keys of the project, of a table, of a field and of a relationship
Keys ==
  <<"tables", "relationships", "dialect", "id", "name", "fields", "type", "isPrimary",
    "isNull", "isUnique", "autoIncrement", "default", "isForeignKey", "references",
    "parentTableId", "childTableId", "parentField", "childField">>

\* JSON.stringify of an object whose values are written as they are
stringifyObject(obj) ==
  LET keys == SelectSeq(Keys, LAMBDA k : k \in DOMAIN obj)
  IN [i \in 1..Len(keys) |-> <<keys[i], obj[keys[i]]>>]

\* JSON.stringify of a table: its fields are objects of an array
stringifyTable(t) ==
  stringifyObject(With(t, "fields",
                       [i \in 1..Len(t.fields) |-> stringifyObject(t.fields[i])]))

\* JSON.stringify({ tables, relationships, dialect }, null, 2), line 309
stringify(tbls, rels, selected) ==
  stringifyObject([tables |-> [i \in 1..Len(tbls) |-> stringifyTable(tbls[i])],
                   relationships |-> [i \in 1..Len(rels) |-> stringifyObject(rels[i])],
                   dialect |-> selected])

\* JSON.parse of an object: the keys read, each with the value read last
parseObject(members) ==
  [k \in {members[i][1] : i \in 1..Len(members)} |->
     members[CHOOSE i \in 1..Len(members) :
               members[i][1] = k /\ \A j \in (i + 1)..Len(members) : members[j][1] # k][2]]

\* JSON.parse of a table
parseTable(members) ==
  LET t == parseObject(members)
  IN IF "fields" \in DOMAIN t
     THEN With(t, "fields", [i \in 1..Len(t.fields) |-> parseObject(t.fields[i])])
     ELSE t

\* JSON.parse of a project document, line 323
parse(members) ==
  LET data == parseObject(members)
      withTables ==
        IF "tables" \in DOMAIN data
        THEN With(data, "tables", [i \in 1..Len(data.tables) |-> parseTable(data.tables[i])])
        ELSE data
  IN IF "relationships" \in DOMAIN data
     THEN With(withTables, "relationships",
               [i \in 1..Len(data.relationships) |-> parseObject(data.relationships[i])])
     ELSE withTables

\* exportJSON, lines 307-316: the document is downloaded as the project file
exportJSON ==
  /\ file' = [exported |-> TRUE, json |-> TRUE,
              data |-> stringify(tables, relationships, dialect),
              tables |-> tables, relationships |-> relationships, dialect |-> dialect]
  /\ last' = [op |-> "exportJSON"]
  /\ UNCHANGED <<tables, relationships, dialect, message, tableIds, relIds>>

\* a variant for C16: the dialect of the document is not read
importJSONTables(f) ==
  /\ f.json /\ "tables" \in DOMAIN parse(f.data)
  /\ tables' = parse(f.data).tables
  /\ relationships' = IF "relationships" \in DOMAIN parse(f.data)
                      THEN parse(f.data).relationships ELSE <<>>
  /\ message' = "Project imported"
  /\ last' = [op |-> "importJSON", file |-> f, result |-> "ok",
              tables |-> tables, relationships |-> relationships, dialect |-> dialect]
  /\ UNCHANGED <<dialect, tableIds, relIds, file>>

\* importJSON, lines 318-335, reader.onload included; f.json tells whether
\* JSON.parse accepts the text of the file
importJSON(f) ==
  LET call == [op |-> "importJSON", file |-> f,
               tables |-> tables, relationships |-> relationships, dialect |-> dialect]
  IN IF ~f.json \/ "tables" \notin DOMAIN parse(f.data)
     THEN /\ message' = "Import failed"
          /\ last' = With(call, "result", "failed")
          /\ UNCHANGED <<tables, relationships, dialect, tableIds, relIds, file>>
     ELSE LET data == parse(f.data)
          IN /\ tables' = data.tables
             /\ relationships' =
                  IF "relationships" \in DOMAIN data THEN data.relationships ELSE <<>>
             /\ dialect' = IF "dialect" \in DOMAIN data THEN data.dialect ELSE "postgres"
             /\ message' = "Project imported"
             /\ last' = With(call, "result", "ok")
             /\ UNCHANGED <<tableIds, relIds, file>>

\* setDialect, line 400
setDialect(value) ==
  /\ dialect' = value
  /\ last' = [op |-> "setDialect", value |-> value]
  /\ UNCHANGED <<tables, relationships, message, tableIds, relIds, file>>

---------------------------------------------------------------------------
(* The inputs the forms can hand to the handlers *)

\* names typed into the table-name input: the default name "table" in upper
\* case, the same name after a space, and a blank one
TableNames ==
  {<<"T", "A", "B", "L", "E">>, <<" ", "t", "a", "b", "l", "e">>, <<" ">>}

\* names typed into the child FK field input: left empty, or " ID "
ChildFieldNames == {<<>>, <<" ", "I", "D", " ">>}

\* the create form saved as it opens
DefaultDrafts == {openCreateTable(tables)}

\* drafts of the create form: the opening draft, renamed or with its rows edited
CreateDrafts ==
  LET draft == openCreateTable(tables)
  IN {draft}
     \cup {setDraftName(draft, n) : n \in TableNames}
     \cup {removeFieldInDraft(draft, 1),
           updateFieldInDraft(draft, 1, "isPrimary", FALSE),
           updateFieldInDraft(addFieldToDraft(draft), 2, "name", <<"I", "D">>)}

\* the edit form of table t saved with its first row removed and its last row
\* made the primary key
KeyEdits(t) ==
  {updateFieldInDraft(removeFieldInDraft(openEditTable(t), 1), Len(t.fields) - 1,
                      "isPrimary", TRUE)}

\* drafts of the edit form of table t: its copy, renamed or with its rows edited
EditDrafts(t) ==
  LET draft == openEditTable(t)
  IN {draft}
     \cup {setDraftName(draft, n) : n \in TableNames}
     \cup {updateFieldInDraft(draft, 1, "isPrimary", FALSE),
           removeFieldInDraft(draft, 1)}

\* drafts of the create form with its rows edited: a row added and left as it
\* is (its name empty), the first row's name cleared, a second row named ID
FieldDrafts ==
  LET draft == openCreateTable(tables)
  IN {draft,
      addFieldToDraft(draft),
      updateFieldInDraft(draft, 1, "name", <<>>),
      updateFieldInDraft(addFieldToDraft(draft), 2, "name", <<"I", "D">>)}

\* the edit form of table t saved with its last row's name cleared, or with
\* its first row removed and its last row made the primary key
FieldEdits(t) ==
  {updateFieldInDraft(openEditTable(t), Len(t.fields), "name", <<>>)} \cup KeyEdits(t)

\* the identifier of a deleted table, if there is one
MissingIds ==
  LET missing == {id \in 1..tableIds : tableIndex(tables, id) = 0}
  IN IF missing = {} THEN {} ELSE {CHOOSE id \in missing : TRUE}

\* endpoints of the relationship form: a table's id, unset (0), or a missing id
EndpointIds == {0} \cup {tables[i].id : i \in 1..Len(tables)} \cup MissingIds

\* drafts of the relationship form, lines 183-189 and 611-651
RelDrafts ==
  [parentTableId : EndpointIds, childTableId : EndpointIds, parentField : {<<>>},
   childField : ChildFieldNames, type : REL_TYPES]

\* the relationship form saved as it opens (lines 183-189) for any two tables
ForeignKeyDrafts ==
  [parentTableId : EndpointIds \ {0}, childTableId : EndpointIds \ {0}, parentField : {<<>>},
   childField : {<<>>}, type : {"ONE_TO_MANY"}]

\* the relationship form saved for a MANY_TO_MANY relationship between tables
JoinDrafts ==
  [parentTableId : EndpointIds \ {0}, childTableId : EndpointIds \ {0}, parentField : {<<>>},
   childField : {<<>>}, type : {"MANY_TO_MANY"}]

\* other files picked in the file input: one that is not JSON, the documents
\* {} and {"tables": []}
OtherFiles ==
  {[exported |-> FALSE, json |-> FALSE, data |-> <<>>],
   [exported |-> FALSE, json |-> TRUE, data |-> <<>>],
   [exported |-> FALSE, json |-> TRUE, data |-> <<<<"tables", <<>>>>>>]}

---------------------------------------------------------------------------
(* The state machine *)

Init ==
  /\ tables = <<>>
  /\ relationships = <<>>
  /\ dialect = "postgres"
  /\ file = [exported |-> FALSE]
  /\ message = ""
  /\ tableIds = 0
  /\ relIds = 0
  /\ last = [op |-> "none"]

\* the create form saved; a draft that passes is taken while identifiers last
createTable(drafts) ==
  \E tableDraft \in drafts :
     /\ saveTableRejection(tableDraft, 0) = "" => tableIds < MaxTableIds
     /\ saveTable(tableDraft, 0)
     /\ UNCHANGED <<dialect, file>>

\* the edit form of a table saved; drafts[i] are the drafts of tables[i]
updateTable(drafts) ==
  \E i \in DOMAIN drafts : \E tableDraft \in drafts[i] :
     saveTable(tableDraft, tables[i].id) /\ UNCHANGED <<dialect, file>>

removeTable ==
  \E tableId \in 1..tableIds : deleteTable(tableId) /\ UNCHANGED <<dialect, file>>

createRelationship(drafts) ==
  /\ relIds < MaxRelIds
  /\ \E relDraft \in drafts : saveRelationship(relDraft)
  /\ UNCHANGED <<dialect, file>>

removeRelationship ==
  \E relId \in 1..relIds : deleteRelationship(relId) /\ UNCHANGED <<dialect, file>>

\* tables saved as the form opens, every kind of relationship
Next ==
  \/ createTable(DefaultDrafts)
  \/ updateTable([i \in 1..Len(tables) |-> KeyEdits(tables[i])])
  \/ removeTable
  \/ createRelationship(RelDrafts)
  \/ removeRelationship

Spec == Init /\ [][Next]_vars

\* tables saved from edited forms, MANY_TO_MANY relationships
NextForms ==
  \/ createTable(CreateDrafts)
  \/ updateTable([i \in 1..Len(tables) |-> EditDrafts(tables[i])])
  \/ removeTable
  \/ createRelationship(JoinDrafts)
  \/ removeRelationship

SpecForms == Init /\ [][NextForms]_vars

\* tables saved with edited field rows, ONE_TO_MANY relationships
NextFields ==
  \/ createTable(FieldDrafts)
  \/ updateTable([i \in 1..Len(tables) |-> FieldEdits(tables[i])])
  \/ removeTable
  \/ createRelationship(ForeignKeyDrafts)
  \/ removeRelationship

SpecFields == Init /\ [][NextFields]_vars

selectDialect ==
  \E value \in Dialects \ {dialect} : setDialect(value)

exportProject == exportJSON

\* a file picked in the file input: the downloaded project file or another one
importProject ==
  \/ file.exported /\ importJSON(file)
  \/ \E f \in OtherFiles : importJSON(f)

\* tables and relationships saved as the forms open, the dialect selected, the
\* project exported and imported
NextProject ==
  \/ createTable(DefaultDrafts)
  \/ removeTable
  \/ createRelationship(ForeignKeyDrafts)
  \/ selectDialect
  \/ exportProject
  \/ importProject

SpecProject == Init /\ [][NextProject]_vars

---------------------------------------------------------------------------
(* uniqueName on its own *)

\* names of the items handed to uniqueName, and the base names asked for
ItemNames ==
  {<<"a">>, <<"A">>, <<"a", "_", "1">>, <<"A", "_", "1">>, <<"a", "_", "2">>}

BaseNames == {<<"a">>, <<"A">>, <<"a", "_", "1">>}

\* the lists of at most MaxItems items
ItemLists ==
  UNION {[1..n -> ItemNames] : n \in 0..MaxItems}

\* a store whose tables carry the names of one of the lists
InitNames ==
  /\ tables \in {[i \in 1..Len(names) |->
                     [id |-> i, name |-> names[i], fields |-> <<DEFAULT_FIELD>>]] :
                  names \in ItemLists}
  /\ relationships = <<>>
  /\ dialect = "postgres"
  /\ file = [exported |-> FALSE]
  /\ message = ""
  /\ tableIds = Len(tables)
  /\ relIds = 0
  /\ last = [op |-> "none"]

\* uniqueName(base, tables), lines 27-35
callUniqueName ==
  \E base \in BaseNames :
     /\ last' = [op |-> "uniqueName", base |-> base, list |-> tables,
                 result |-> uniqueName(base, tables)]
     /\ UNCHANGED <<tables, relationships, dialect, message, tableIds, relIds, file>>

NextNames == callUniqueName

SpecNames == InitNames /\ [][NextNames]_vars

---------------------------------------------------------------------------
(* Vocabulary of the properties *)

HasPrimaryKey(t) == \E i \in 1..Len(t.fields) : Truthy(t.fields[i], "isPrimary")

TableIdsOf(tbls) == {tbls[i].id : i \in 1..Len(tbls)}

FieldsOf(tbls) == [i \in 1..Len(tbls) |-> tbls[i].fields]

\* the table with this id
TableOf(tbls, id) == tbls[tableIndex(tbls, id)]

\* the position of the first field with isPrimary = true
FirstPrimaryKey(t) ==
  CHOOSE i \in 1..Len(t.fields) :
     Truthy(t.fields[i], "isPrimary") /\ \A j \in 1..(i - 1) : ~Truthy(t.fields[j], "isPrimary")

\* equal under case-insensitive comparison
SameName(a, b) == toLowerCase(a) = toLowerCase(b)

\* seq with one element appended
IsAppendOf(seq, old) == Len(seq) = Len(old) + 1 /\ SubSeq(seq, 1, Len(old)) = old

\* the relationship that the last call saved is the newest one of the store
SavedRelationship == relationships[Len(relationships)]

\* the last call saved a relationship of one of these types
SavedOfType(types) ==
  /\ last.op = "saveRelationship"
  /\ last.result = "ok"
  /\ last.relDraft.type \in types

---------------------------------------------------------------------------
(* Properties *)

\* C1: in every reachable state, every table of the store has at least one
\* field and at least one field with isPrimary = true.
C1_TablesKeepPrimaryKey ==
  \A i \in 1..Len(tables) : Len(tables[i].fields) >= 1 /\ HasPrimaryKey(tables[i])

\* C2: deleting a MANY_TO_MANY relationship right after it was created gives
\* back the tables and the relationships the creation started from.
C2_DeleteUndoesManyToMany ==
  [][(/\ SavedOfType({"MANY_TO_MANY"})
      /\ last'.op = "deleteRelationship"
      /\ last'.relId = SavedRelationship.id)
     => (tables' = last.tables /\ relationships' = last.relationships)]_vars

\* C3: deleting a ONE_TO_ONE or ONE_TO_MANY relationship right after it was
\* created gives back every table's field sequence and the relationships the
\* creation started from.
C3_DeleteUndoesForeignKey ==
  [][(/\ SavedOfType({"ONE_TO_ONE", "ONE_TO_MANY"})
      /\ last'.op = "deleteRelationship"
      /\ last'.relId = SavedRelationship.id)
     => (FieldsOf(tables') = FieldsOf(last.tables) /\ relationships' = last.relationships)]_vars

\* the last call was createRelationship of this type between two different
\* tables of the store
CalledBetweenTables(type) ==
  /\ last.op = "saveRelationship"
  /\ last.relDraft.type = type
  /\ last.relDraft.parentTableId # last.relDraft.childTableId
  /\ {last.relDraft.parentTableId, last.relDraft.childTableId} \subseteq TableIdsOf(last.tables)

\* the foreign-key name the last createRelationship call resolves to
ResolvedName ==
  IF trim(last.relDraft.childField) # <<>>
  THEN trim(last.relDraft.childField)
  ELSE toLowerCase(TableOf(last.tables, last.relDraft.parentTableId).name) \o <<"_", "i", "d">>

\* the child of the last createRelationship call had a field of the resolved name
ChildHadResolvedName ==
  \E f \in Range(TableOf(last.tables, last.relDraft.childTableId).fields) :
     SameName(f.name, ResolvedName)

\* a draft that createTable must reject when the store holds tbls
InvalidCreateDraft(draft, tbls) ==
  \/ trim(draft.name) = <<>>
  \/ \E t \in Range(tbls) : SameName(t.name, draft.name)
  \/ Len(draft.fields) = 0
  \/ ~HasPrimaryKey(draft)
  \/ \E i, j \in 1..Len(draft.fields) :
        i # j /\ SameName(draft.fields[i].name, draft.fields[j].name)

\* C4: createTable with an empty (trimmed) name, a name that collides
\* case-insensitively with a table, no field, no primary field or two fields of
\* the same name (case-insensitively) fails and leaves tables and relationships
\* as they were.
C4_InvalidCreateRejected ==
  (/\ last.op = "saveTable"
   /\ last.editingTable = 0
   /\ InvalidCreateDraft(last.tableDraft, last.tables))
  => (/\ last.result = "rejected"
      /\ tables = last.tables
      /\ relationships = last.relationships)

C4_Witness ==
  /\ last.op = "saveTable"
  /\ last.editingTable = 0
  /\ last.result = "rejected"
  /\ message = "Duplicate field names"
  /\ Len(last.tables) > 0
  /\ Len(last.relationships) > 0

\* C5: creating a MANY_TO_MANY relationship between two different tables A and B
\* of the store appends exactly one table, with exactly three fields in order (a
\* primary key, a foreign key to A, a foreign key to B), appends exactly one
\* relationship and leaves every table that was there unchanged.
C5_ManyToManyAddsJoinTable ==
  CalledBetweenTables("MANY_TO_MANY")
  => (/\ last.result = "ok"
      /\ IsAppendOf(tables, last.tables)
      /\ IsAppendOf(relationships, last.relationships)
      /\ LET added == tables[Len(tables)].fields
         IN /\ Len(added) = 3
            /\ Truthy(added[1], "isPrimary") /\ ~Truthy(added[1], "isForeignKey")
            /\ \A k \in {2, 3} : Truthy(added[k], "isForeignKey") /\ ~Truthy(added[k], "isPrimary")
            /\ added[2].references = last.relDraft.parentTableId
            /\ added[3].references = last.relDraft.childTableId)

C5_Witness ==
  /\ CalledBetweenTables("MANY_TO_MANY")
  /\ last.result = "ok"
  /\ Len(last.tables) >= 3
  /\ Len(last.relationships) >= 1

\* C6: creating a ONE_TO_MANY relationship when the child has no field of the
\* resolved foreign-key name adds exactly one field to the child, as its last
\* field, with the type of the parent's first primary-key field, isForeignKey,
\* references = parent.id, isUnique = false and isNull = false, and changes no
\* other table.
C6_OneToManyAddsForeignKey ==
  (CalledBetweenTables("ONE_TO_MANY") /\ ~ChildHadResolvedName)
  => (/\ last.result = "ok"
      /\ Len(tables) = Len(last.tables)
      /\ LET parent == TableOf(last.tables, last.relDraft.parentTableId)
             c == tableIndex(last.tables, last.relDraft.childTableId)
             new == tables[c].fields[Len(tables[c].fields)]
         IN /\ IsAppendOf(tables[c].fields, last.tables[c].fields)
            /\ HasPrimaryKey(parent)
            /\ new.type = parent.fields[FirstPrimaryKey(parent)].type
            /\ Truthy(new, "isForeignKey")
            /\ new.references = parent.id
            /\ new.isUnique = FALSE
            /\ new.isNull = FALSE
            /\ \A i \in 1..Len(tables) : i # c => tables[i] = last.tables[i])

\* C7: creating a ONE_TO_ONE relationship when the child has a field of the
\* resolved foreign-key name sets that field's isUnique to true, keeps the
\* child's field count and order and every other attribute of every field, and
\* appends exactly one relationship.
C7_OneToOnePromotesField ==
  (CalledBetweenTables("ONE_TO_ONE") /\ ChildHadResolvedName)
  => (/\ last.result = "ok"
      /\ IsAppendOf(relationships, last.relationships)
      /\ Len(tables) = Len(last.tables)
      /\ \A i \in 1..Len(tables) :
            /\ Len(tables[i].fields) = Len(last.tables[i].fields)
            /\ \A k \in 1..Len(tables[i].fields) :
                  LET old == last.tables[i].fields[k]
                      new == tables[i].fields[k]
                  IN IF tables[i].id = last.relDraft.childTableId
                        /\ SameName(old.name, ResolvedName)
                     THEN new = With(old, "isUnique", TRUE)
                     ELSE new = old)

\* C8: deleteTable(id) of a table of the store removes exactly the relationships
\* whose parentTableId or childTableId is id, keeps the others unchanged and in
\* order, and removes exactly the table with that id.
C8_DeleteTableRemovesItsRelationships ==
  last.op = "deleteTable"
  => (/\ \A r \in Range(last.relationships) :
            r \in Range(relationships)
            <=> ~(r.parentTableId = last.tableId \/ r.childTableId = last.tableId)
      /\ relationships = SelectSeq(last.relationships, LAMBDA r : r \in Range(relationships))
      /\ Len(tables) = Len(last.tables) - 1
      /\ tables = SelectSeq(last.tables, LAMBDA t : t.id # last.tableId))

C8_Witness ==
  /\ last.op = "deleteTable"
  /\ Len(relationships) = 1
  /\ Len(last.relationships) = 2

\* C9: createRelationship with parentTableId = childTableId, with an unset
\* endpoint, or with an endpoint that is the id of no table fails and leaves
\* tables and relationships as they were.
C9_BadEndpointsRejected ==
  (/\ last.op = "saveRelationship"
   /\ \/ last.relDraft.parentTableId = last.relDraft.childTableId
      \/ 0 \in {last.relDraft.parentTableId, last.relDraft.childTableId}
      \/ ~({last.relDraft.parentTableId, last.relDraft.childTableId}
             \subseteq TableIdsOf(last.tables)))
  => (/\ last.result = "rejected"
      /\ tables = last.tables
      /\ relationships = last.relationships)

C9_Witness ==
  /\ last.op = "saveRelationship"
  /\ last.result = "rejected"
  /\ message = "Parent or child table missing"
  /\ last.relDraft.type = "MANY_TO_MANY"
  /\ Len(last.tables) > 0

\* C10: in every reachable state, no two tables of the store have names that
\* are equal under case-insensitive comparison, join tables included.
C10_TableNamesUnique ==
  \A i, j \in 1..Len(tables) : i # j => ~SameName(tables[i].name, tables[j].name)

\* two join tables of the same pair of tables, the second one's name uniquified
C10_Witness ==
  \E i, j \in 1..Len(tables) :
     /\ Len(tables[i].fields) = 3 /\ Truthy(tables[i].fields[2], "isForeignKey")
     /\ tables[j].name = tables[i].name \o <<"_", "1">>

\* C11: a draft with a field whose name is the empty string is never committed
\* by createTable or updateTable: the call is rejected and the tables are as
\* they were.
C11_EmptyFieldNameRejected ==
  (/\ last.op = "saveTable"
   /\ \E f \in Range(last.tableDraft.fields) : f.name = <<>>)
  => (last.result = "rejected" /\ tables = last.tables)

\* C12: in every reachable state, no table has two fields whose names are equal
\* under case-insensitive comparison.
C12_FieldNamesUnique ==
  \A t \in Range(tables) : \A i, j \in 1..Len(t.fields) :
     i # j => ~SameName(t.fields[i].name, t.fields[j].name)

\* a relationship saved with the child FK field typed as " ID " on a child that
\* has the field id
C12_Witness ==
  /\ SavedOfType({"ONE_TO_ONE", "ONE_TO_MANY"})
  /\ ResolvedName = <<"I", "D">>
  /\ ChildHadResolvedName
  /\ \E t \in Range(tables) : Len(t.fields) = 3

\* base_k, the k-th candidate of uniqueName
Candidate(base, k) == base \o <<"_">> \o NumToStr(k)

\* C13: uniqueName(base, items) is base when no item has that name
\* case-insensitively, else base_k for the smallest k >= 1 such that no item is
\* named base_k case-insensitively; the result is the name of no item, and the
\* items are as they were.
C13_UniqueNameIsFirstFree ==
  last.op = "uniqueName"
  => LET taken(n) == \E x \in Range(last.list) : SameName(x.name, n)
     IN /\ ~taken(last.base) => last.result = last.base
        /\ taken(last.base) =>
              \E k \in 1..(Len(last.list) + 1) :
                 /\ last.result = Candidate(last.base, k)
                 /\ ~taken(Candidate(last.base, k))
                 /\ \A j \in 1..(k - 1) : taken(Candidate(last.base, j))
        /\ ~taken(last.result)
        /\ tables = last.list

\* base a with a, A_1 and a_2 taken: the third candidate is the result
C13_Witness ==
  /\ last.op = "uniqueName"
  /\ last.base = <<"a">>
  /\ last.result = <<"a", "_", "3">>

\* a draft that passes every check of the form when the other tables are tbls,
\* table names compared trimmed and case-insensitively
ValidDraft(draft, tbls) ==
  /\ trim(draft.name) # <<>>
  /\ \A t \in Range(tbls) : ~SameName(trim(t.name), trim(draft.name))
  /\ Len(draft.fields) > 0
  /\ HasPrimaryKey(draft)
  /\ \A i, j \in 1..Len(draft.fields) :
        i # j => ~SameName(draft.fields[i].name, draft.fields[j].name)

\* C14: updateTable(id, draft) validates like createTable, the edited table
\* left out of the name-collision check: an invalid draft is rejected and the
\* store is as it was; a valid one (the table's own name included) succeeds, and
\* then the table keeps its id and its position, every other table and the
\* relationships are unchanged.
C14_UpdateKeepsIdAndPosition ==
  (last.op = "saveTable" /\ last.editingTable # 0)
  => LET others == SelectSeq(last.tables, LAMBDA t : t.id # last.editingTable)
     IN /\ InvalidCreateDraft(last.tableDraft, others) => last.result = "rejected"
        /\ ValidDraft(last.tableDraft, others) => last.result = "ok"
        /\ last.result = "rejected"
              => (tables = last.tables /\ relationships = last.relationships)
        /\ last.result = "ok"
              => /\ relationships = last.relationships
                 /\ Len(tables) = Len(last.tables)
                 /\ \A i \in 1..Len(tables) :
                       tables[i] = IF last.tables[i].id = last.editingTable
                                   THEN With(last.tableDraft, "id", last.editingTable)
                                   ELSE last.tables[i]

\* the first of several tables renamed while a relationship exists
C14_Witness ==
  /\ last.op = "saveTable"
  /\ last.editingTable # 0
  /\ last.result = "ok"
  /\ Len(last.tables) >= 3
  /\ last.tables[1].id = last.editingTable
  /\ last.tables[1].name # tables[1].name
  /\ Len(relationships) >= 1

\* C17: after a successful createRelationship of type ONE_TO_ONE or
\* ONE_TO_MANY, the stored relationship's parentField is the name of the
\* parent's first primary field, and its childField names
\* (case-insensitively) a field of the child that has isForeignKey = true and
\* references = parentTableId.
C17_RelationshipNamesKeyFields ==
  SavedOfType({"ONE_TO_ONE", "ONE_TO_MANY"})
  => LET rel == SavedRelationship
         parent == TableOf(tables, rel.parentTableId)
         child == TableOf(tables, rel.childTableId)
     IN /\ HasPrimaryKey(parent)
        /\ rel.parentField = parent.fields[FirstPrimaryKey(parent)].name
        /\ \E f \in Range(child.fields) :
              /\ SameName(f.name, rel.childField)
              /\ Truthy(f, "isForeignKey")
              /\ f.references = rel.parentTableId

\* C18: a deleteTable call that has an effect was given the id of a table, and
\* leaves the other tables, in their order, exactly as they were, foreign keys
\* to the deleted table included.
C18_DeleteTableKeepsOtherTables ==
  last.op = "deleteTable"
  => /\ last.tableId \in TableIdsOf(last.tables)
     /\ tables = SelectSeq(last.tables, LAMBDA t : t.id # last.tableId)

\* a surviving table keeps a foreign key to the deleted table
C18_Witness ==
  /\ last.op = "deleteTable"
  /\ \E t \in Range(tables) : \E f \in Range(t.fields) :
        Truthy(f, "isForeignKey") /\ f.references = last.tableId

---------------------------------------------------------------------------
(* Properties of the generated text *)

\* the lines of a text: its pieces between line feeds
RECURSIVE SplitLines(_)
SplitLines(text) ==
  LET n == find([i \in 1..Len(text) |-> text[i] = "\n"])
  IN IF n = 0 THEN <<text>>
     ELSE <<SubSeq(text, 1, n - 1)>> \o SplitLines(SubSeq(text, n + 1, Len(text)))

\* the CREATE TABLE statements of a sequence of lines, in order: the line that
\* opens each, and the lines up to the line that closes it
RECURSIVE Statements(_)
Statements(lines) ==
  LET open == find([i \in 1..Len(lines) |->
                      lines[i] # <<>> /\ lines[i][1] = "CREATE TABLE "])
      close == find([i \in 1..Len(lines) |-> i > open /\ lines[i] = <<");">>])
  IN IF open = 0 THEN <<>>
     ELSE IF close = 0
     THEN <<[header |-> lines[open], defs |-> SubSeq(lines, open + 1, Len(lines)),
             closed |-> FALSE]>>
     ELSE <<[header |-> lines[open], defs |-> SubSeq(lines, open + 1, close - 1),
             closed |-> TRUE]>>
          \o Statements(SubSeq(lines, close + 1, Len(lines)))

\* the statements of generate(dialect)
Generated(forDialect) == Statements(SplitLines(generateSQL(forDialect)))

IsForeignKeyLine(line) == \E i \in 1..Len(line) : line[i] = "FOREIGN KEY ("

\* the column lines of a statement
ColumnLines(statement) ==
  SelectSeq(statement.defs, LAMBDA line : line # <<>> /\ ~IsForeignKeyLine(line))

\* the FOREIGN KEY lines of a statement
ForeignKeyLines(statement) == SelectSeq(statement.defs, IsForeignKeyLine)

IsPrefix(p, seq) == Len(p) <= Len(seq) /\ SubSeq(seq, 1, Len(p)) = p

\* C15: for every dialect, the CREATE TABLE statements of generate(dialect) are
\* those of the tables in the collection's order, and the column lines of each
\* are one per field of the table, in the order of its fields.
C15_ColumnLinesFollowFields ==
  \A d \in Dialects :
     LET statements == Generated(d)
     IN /\ Len(statements) = Len(tables)
        /\ \A i \in 1..Len(tables) :
              LET columns == ColumnLines(statements[i])
                  fields == tables[i].fields
              IN /\ statements[i].header
                      = <<"CREATE TABLE ">> \o escapeId(tables[i].name, d) \o <<" (">>
                 /\ Len(columns) = Len(fields)
                 /\ \A k \in 1..Len(fields) :
                       /\ IsPrefix(<<"  ">> \o escapeId(fields[k].name, d)
                                     \o <<" ", fields[k].type>>, columns[k])
                       /\ statements[i].defs[k] = columns[k]

\* three tables, one of them with three fields of which one is a foreign key
\* with its FOREIGN KEY line
C15_Witness ==
  /\ Len(tables) >= 3
  /\ \E i \in 1..Len(tables) :
        /\ Len(tables[i].fields) = 3
        /\ Len(ColumnLines(Generated("mysql")[i])) = 3
        /\ Len(ForeignKeyLines(Generated("mysql")[i])) >= 1

\* the FOREIGN KEY clause of a line: from FOREIGN KEY to the closing bracket
ForeignKeyClause(line) ==
  SubSeq(line, find([i \in 1..Len(line) |-> line[i] = "FOREIGN KEY ("]),
         IF line[Len(line)] = "," THEN Len(line) - 1 ELSE Len(line))

\* FOREIGN KEY (<fk>) REFERENCES <table>(<key>)
ReferenceTo(fk, parent, key, forDialect) ==
  <<"FOREIGN KEY (">> \o escapeId(fk.name, forDialect) \o <<") REFERENCES ">>
  \o escapeId(parent.name, forDialect) \o <<"(">> \o escapeId(key, forDialect) \o <<")">>

\* the statement of table i has its column lines first and then one FOREIGN
\* KEY line per field of keys, in order, each naming the referenced table and
\* the key that KeyOf gives for it
ForeignKeyLinesAre(i, keys, forDialect, keyNames) ==
  LET statement == Generated(forDialect)[i]
      lines == ForeignKeyLines(statement)
  IN /\ SelectSeq(statement.defs, LAMBDA line : line # <<>>)
          = ColumnLines(statement) \o lines
     /\ Len(lines) = Len(keys)
     /\ \A k \in 1..Len(keys) :
           /\ keys[k].references \in TableIdsOf(tables)
           /\ ForeignKeyClause(lines[k])
                = ReferenceTo(keys[k], TableOf(tables, keys[k].references),
                              keyNames[keys[k].references], forDialect)

\* C19 as stated: for every table and dialect, after the column lines there is
\* exactly one FOREIGN KEY line per field with isForeignKey = true, in field
\* order, referencing the table the field references and that table's first
\* primary field name, or id when that table has no primary field.
C19_ForeignKeyLinePerKey ==
  \A d \in Dialects : \A i \in 1..Len(tables) :
     ForeignKeyLinesAre(
       i, SelectSeq(tables[i].fields, LAMBDA f : Truthy(f, "isForeignKey")), d,
       [id \in TableIdsOf(tables) |->
          LET parent == TableOf(tables, id)
          IN IF HasPrimaryKey(parent) THEN parent.fields[FirstPrimaryKey(parent)].name
             ELSE <<"i", "d">>])

\* C19, amended: for every table and dialect, after the column lines there is
\* exactly one FOREIGN KEY line per field with isForeignKey = true whose
\* references is the id of a table of the store, in field order, and none for
\* the other fields; each references that table and its first primary field
\* name, or id when that table has no primary field or the name of that field
\* is empty.
C19_ForeignKeyLinePerKeyOfTable ==
  \A d \in Dialects : \A i \in 1..Len(tables) :
     ForeignKeyLinesAre(
       i,
       SelectSeq(tables[i].fields,
                 LAMBDA f : Truthy(f, "isForeignKey") /\ f.references \in TableIdsOf(tables)),
       d,
       [id \in TableIdsOf(tables) |->
          LET parent == TableOf(tables, id)
          IN IF HasPrimaryKey(parent) /\ parent.fields[FirstPrimaryKey(parent)].name # <<>>
             THEN parent.fields[FirstPrimaryKey(parent)].name
             ELSE <<"i", "d">>])

\* a table with a foreign key to a table that was deleted, and no FOREIGN KEY
\* line for it
C19_Witness ==
  \E i \in 1..Len(tables) :
     /\ \E f \in Range(tables[i].fields) :
           Truthy(f, "isForeignKey") /\ f.references \notin TableIdsOf(tables)
     /\ ForeignKeyLines(Generated("postgres")[i]) = <<>>

\* the commas of a line before its definition starts
LeadingCommas(line) ==
  LET start == find([i \in 1..Len(line) |-> line[i] \notin {"  ", ","}])
  IN Cardinality({i \in 1..(start - 1) : line[i] = ","})

\* the commas of a line after its definition ends
TrailingCommas(line) ==
  Cardinality({i \in 1..Len(line) :
                 line[i] = "," /\ \A j \in (i + 1)..Len(line) : line[j] = ","})

\* C20: in every CREATE TABLE statement of generate(dialect), exactly one comma
\* separates each two consecutive definition lines (column lines, then FOREIGN
\* KEY lines), no comma precedes the first or follows the last, and the
\* statement is closed with );
C20_OneCommaBetweenDefinitions ==
  \A d \in Dialects : \A i \in 1..Len(tables) :
     LET statement == Generated(d)[i]
         defs == SelectSeq(statement.defs, LAMBDA line : line # <<>>)
     IN /\ statement.closed
        /\ \A k \in 1..(Len(defs) - 1) :
              TrailingCommas(defs[k]) + LeadingCommas(defs[k + 1]) = 1
        /\ defs # <<>> => LeadingCommas(defs[1]) = 0 /\ TrailingCommas(defs[Len(defs)]) = 0

---------------------------------------------------------------------------
(* Properties of the project file *)

\* C16: importing the document that exportJSON wrote for a state gives that
\* state: the same tables in the same order with the same fields, the same
\* relationships in the same order and the same dialect.
C16_ImportRestoresExport ==
  (last.op = "importJSON" /\ last.file.exported)
  => /\ last.result = "ok"
     /\ tables = last.file.tables
     /\ relationships = last.file.relationships
     /\ dialect = last.file.dialect

\* a project with a relationship, exported under mysql, imported into a store
\* that had changed since
C16_Witness ==
  /\ last.op = "importJSON"
  /\ last.file.exported
  /\ Len(tables) >= 2
  /\ Len(relationships) >= 1
  /\ dialect = "mysql"
  /\ last.tables # tables
  /\ last.dialect # dialect

---------------------------------------------------------------------------
(* Properties of the relationships of the store *)

\* C21: in every reachable state, every relationship of the store has a
\* parentTableId different from its childTableId, and both are ids of tables
\* of the store.
C21_RelationshipEndpointsExist ==
  \A r \in 1..Len(relationships) :
     /\ relationships[r].parentTableId # relationships[r].childTableId
     /\ relationships[r].parentTableId \in TableIdsOf(tables)
     /\ relationships[r].childTableId \in TableIdsOf(tables)

\* the table has a foreign-key field that references the table with this id
HasForeignKeyTo(t, id) ==
  \E i \in 1..Len(t.fields) :
     Truthy(t.fields[i], "isForeignKey") /\ t.fields[i].references = id

\* a join table of the relationship: a table other than its endpoints with a
\* foreign key to the parent and a foreign key to the child
IsJoinTableOf(t, rel) ==
  /\ t.id \notin {rel.parentTableId, rel.childTableId}
  /\ HasForeignKeyTo(t, rel.parentTableId)
  /\ HasForeignKeyTo(t, rel.childTableId)

\* C22: in every reachable state, every MANY_TO_MANY relationship of the store
\* has its join table: a table of the store, other than its two endpoints, with
\* a foreign-key field referencing parentTableId and a foreign-key field
\* referencing childTableId.
C22_ManyToManyKeepsJoinTable ==
  \A r \in 1..Len(relationships) :
     relationships[r].type = "MANY_TO_MANY"
     => \E k \in 1..Len(tables) : IsJoinTableOf(tables[k], relationships[r])

====
